---- MODULE Spec2Model ----
(***************************************************************************)
(* Model of the InternetMonitor agent (agent/main.go): the /status         *)
(* handler, the single-flight + cooldown gate of                           *)
(* measureDownloadSpeedAsync, the detached measurement goroutine and       *)
(* updateLastSpeed with its zero de-duplication and history insert.        *)
(*                                                                         *)
(* Time is a logical clock in whole seconds.  Speeds are exact rationals   *)
(* <<numerator, denominator>> in lowest terms (Mbps).  The timestamp and   *)
(* version fields of Status are not part of the state: no modelled         *)
(* decision reads them.                                                    *)
(*                                                                         *)
(* Spec       handlers, measurements and the clock, interleaved            *)
(* FairSpec   the same with the clock advancing by seconds only, under     *)
(*            the fairness of the Go scheduler and of sync.Mutex           *)
(* SpecUpdate measurement bodies with chosen outcomes run back to back,    *)
(*            for the laws of updateLastSpeed over longer sequences        *)
(***************************************************************************)
EXTENDS Integers, Sequences, FiniteSets, TLC

VARIABLES
    now,                  \* wall clock, seconds since process start
    guardMutex,           \* holder of guardMutex: Free, <<"h", r>> or <<"t", k>>
    speedWriter,          \* write holder of speedMutex: Free or <<"t", k>>
    lastSpeed,
    lastRecordedSpeed,
    measuring,
    lastMeasurementTime,
    req,                  \* per handler goroutine: position and locals
    tasks,                \* measurements that passed the gate, in gate order
    forwarded,            \* speeds handed to db.Prepare/stmt.Exec, in order
    history               \* speeds of the rows stmt.Exec inserted, in order

vars == <<now, guardMutex, speedWriter, lastSpeed,
          lastRecordedSpeed, measuring, lastMeasurementTime, req, tasks,
          forwarded, history>>

(* ------------------------------ bounds ---------------------------------- *)
NumReq == 2
MaxMeas == 2
MaxTime == 31
MaxFine == 1
MaxUpdates == 5

(* ------------------------- program constants ---------------------------- *)
measurementCooldown == 30
httpTimeout == 30
dialTimeout == 2
PayloadBytes == 5000000
\* the zero time.Time lastMeasurementTime starts with lies further back
\* than any cooldown before the process started
ZeroTime == -1000000

Handlers == 1..NumReq
Free == <<>>
\* elapsed seconds of a successful dial (below dialTimeout)
DialElapsed == {1}
Bytes == {0, PayloadBytes}

(* ------------------------------ rationals ------------------------------- *)
RECURSIVE GCD(_, _)
GCD(a, b) == IF b = 0 THEN a ELSE GCD(b, a % b)

Rat(n, d) == IF n = 0 THEN <<0, 1>> ELSE <<n \div GCD(n, d), d \div GCD(n, d)>>

Zero == Rat(0, 1)

\* bytes taken for bits
MbpsBytes(n, duration) == Rat(n, duration * 1000000)

\* float64(n*8) / duration / 1_000_000
Mbps(n, duration) == Rat(n * 8, duration * 1000000)

\* speeds a measurement body can be made to report in the update-only runs
UpdateSpeeds == {Rat(5, 1), Rat(7, 1)}

(* ------------------------------- helpers -------------------------------- *)
Since(t) == now - t

\* a handler between requests; its locals while it serves one are the
\* Status under construction and the response once sent (resp)
IdleReq == [pc |-> "idle", online |-> FALSE, latencyMs |-> 0,
            speed |-> Zero, resp |-> <<>>]

\* the Status the handler serializes
StatusOf(r) == [online |-> req[r].online, latencyMs |-> req[r].latencyMs,
                speed |-> req[r].speed]

\* a measurement that has just passed the gate; its goroutine is started
NewTask == [pc |-> "begin", gateAt |-> now, start |-> 0, exit |-> "none",
            speed |-> Zero, shouldWrite |-> FALSE, endAt |-> 0]

InFlight == {k \in DOMAIN tasks : tasks[k].pc # "done"}

(* ------------------------- decisions of the code ------------------------ *)
\* faulty gates: one that ignores the measuring flag, one without cooldown
GateOpenNoFlag(m, last) == ~(Since(last) < measurementCooldown)

GateOpenNoCooldown(m, last) == ~m

\* a gate that turns callers away only if both conditions hold
GateOpenAnd(m, last) == ~(m /\ Since(last) < measurementCooldown)

\* !(measuring || time.Since(lastMeasurementTime) < measurementCooldown)
GateOpen(m, last) == ~m /\ ~(Since(last) < measurementCooldown)

\* faulty de-duplication: never writing a zero, writing every update
ShouldWriteNonZero(speed, recorded) == speed # Zero

ShouldWriteAlways(speed, recorded) == TRUE

\* shouldWrite := speed != 0 || lastRecordedSpeed != 0
ShouldWrite(speed, recorded) == speed # Zero \/ recorded # Zero

\* a handler that triggers the measurement whatever the probe said
TriggersAlways(online) == TRUE

\* if status.Online { measureDownloadSpeedAsync(db) }
Triggers(online) == online

\* a handler that triggers the measurement before it responds
HandlerNextTriggerFirst(p) ==
    CASE p = "read" -> "trigger"
      [] p = "trigger" -> "respond"
      [] p = "respond" -> "idle"

\* statement order of the handler body after the read of lastSpeed
HandlerNext(p) ==
    CASE p = "read" -> "respond"
      [] p = "respond" -> "trigger"
      [] p = "trigger" -> "idle"

\* cleanup written at the end of the body instead of deferred
AfterReturnNoDefer(exit) == IF exit = "ok" THEN "deferlock" ELSE "done"

\* the deferred function runs on every return of the goroutine
AfterReturn(exit) == "deferlock"

\* a deferred function that forgets to stamp the completion
CompletionTimeStale == lastMeasurementTime

\* lastMeasurementTime = time.Now() in the deferred function
CompletionTime == now

\* an update that leaves lastSpeed as it was
StoredSpeedStale(speed, old) == old

\* lastSpeed = speed, unconditionally
StoredSpeed(speed, old) == speed

\* an update that keeps speedMutex until updateLastSpeed returns
SpeedUnlockDeferred(k) == <<"t", k>>

\* speedMutex.Unlock() right after the de-duplication decision
SpeedUnlock(k) == Free

\* a read that waits for the measurement in flight
CanRLockWaits == speedWriter = Free /\ ~measuring

\* speedMutex.RLock() proceeds when no writer holds the lock
CanRLock == speedWriter = Free

(* -------------------------------- Init ---------------------------------- *)
Init ==
    /\ now = 0
    /\ guardMutex = Free
    /\ speedWriter = Free
    /\ lastSpeed = Zero
    /\ lastRecordedSpeed = Zero
    /\ measuring = FALSE
    /\ lastMeasurementTime = ZeroTime
    /\ req = [r \in Handlers |-> IdleReq]
    /\ tasks = <<>>
    /\ forwarded = <<>>
    /\ history = <<>>

(* -------------------------------- clock --------------------------------- *)
Advance(d) ==
    /\ now + d <= MaxTime
    /\ now' = now + d
    /\ UNCHANGED <<guardMutex, speedWriter, lastSpeed,
                   lastRecordedSpeed, measuring, lastMeasurementTime, req,
                   tasks, forwarded, history>>

\* a second passes (at most MaxFine of them in a row)
TickSecond ==
    /\ (now % measurementCooldown) + 1 <= MaxFine
    /\ Advance(1)

\* a whole cooldown passes
TickCooldown == Advance(measurementCooldown)

(* --------------------------- /status handler ---------------------------- *)
SetReq(r, rec) == req' = [req EXCEPT ![r] = rec]

\* the handler returns: its locals are gone
Goto(r, p) == IF p = "idle" THEN IdleReq ELSE [req[r] EXCEPT !.pc = p]

\* a request arrives and checkConnectivity runs: net.DialTimeout returns an
\* error, or a connection after an elapsed time below the dial timeout
CheckConnectivity(r) ==
    /\ req[r].pc = "idle"
    /\ \/ SetReq(r, [IdleReq EXCEPT !.pc = "read"])
       \/ \E elapsed \in DialElapsed :
            SetReq(r, [IdleReq EXCEPT !.pc = "read",
                                      !.online = TRUE,
                                      !.latencyMs = elapsed * 1000])
    /\ UNCHANGED <<now, guardMutex, speedWriter, lastSpeed,
                   lastRecordedSpeed, measuring, lastMeasurementTime, tasks,
                   forwarded, history>>

\* a read that consumes the reading
ReadSpeedClears(r) ==
    /\ req[r].pc = "read"
    /\ CanRLock
    /\ SetReq(r, [req[r] EXCEPT !.pc = HandlerNext("read"),
                                !.speed = lastSpeed])
    /\ lastSpeed' = Zero
    /\ UNCHANGED <<now, guardMutex, speedWriter, lastRecordedSpeed,
                   measuring, lastMeasurementTime, tasks, forwarded, history>>

\* speedMutex.RLock(); status.DownloadSpeedMbps = lastSpeed;
\* speedMutex.RUnlock().  Nothing can change lastSpeed while the read lock
\* is held, so the three are one step, taken when the lock is granted.
ReadSpeed(r) ==
    /\ req[r].pc = "read"
    /\ CanRLock
    /\ SetReq(r, [req[r] EXCEPT !.pc = HandlerNext("read"),
                                !.speed = lastSpeed])
    /\ UNCHANGED <<now, guardMutex, speedWriter, lastSpeed, lastRecordedSpeed,
                   measuring, lastMeasurementTime, tasks, forwarded, history>>

\* json.NewEncoder(w).Encode(status)
Respond(r) ==
    /\ req[r].pc = "respond"
    /\ SetReq(r, IF HandlerNext("respond") = "idle" THEN IdleReq
                 ELSE [req[r] EXCEPT !.pc = HandlerNext("respond"),
                                     !.resp = <<StatusOf(r)>>,
                                     !.latencyMs = 0,
                                     !.speed = Zero])
    /\ UNCHANGED <<now, guardMutex, speedWriter, lastSpeed,
                   lastRecordedSpeed, measuring, lastMeasurementTime, tasks,
                   forwarded, history>>

\* if status.Online is false the handler is finished
SkipMeasure(r) ==
    /\ req[r].pc = "trigger"
    /\ ~Triggers(req[r].online)
    /\ SetReq(r, Goto(r, HandlerNext("trigger")))
    /\ UNCHANGED <<now, guardMutex, speedWriter, lastSpeed,
                   lastRecordedSpeed, measuring, lastMeasurementTime, tasks,
                   forwarded, history>>

(* ---------------------- measureDownloadSpeedAsync ----------------------- *)
\* the call, and guardMutex.Lock()
GateLock(r) ==
    /\ req[r].pc = "trigger"
    /\ Triggers(req[r].online)
    /\ guardMutex = Free
    /\ guardMutex' = <<"h", r>>
    /\ SetReq(r, [req[r] EXCEPT !.pc = "gatecheck"])
    /\ UNCHANGED <<now, speedWriter, lastSpeed,
                   lastRecordedSpeed, measuring, lastMeasurementTime, tasks,
                   forwarded, history>>

\* under guardMutex: the check, then either the unlock and return, or
\* measuring = true, the unlock and the go statement
GateCheck(r) ==
    /\ req[r].pc = "gatecheck"
    /\ guardMutex' = Free
    /\ SetReq(r, Goto(r, HandlerNext("trigger")))
    /\ IF GateOpen(measuring, lastMeasurementTime)
       THEN /\ Len(tasks) < MaxMeas
            /\ measuring' = TRUE
            /\ tasks' = Append(tasks, NewTask)
       ELSE UNCHANGED <<measuring, tasks>>
    /\ UNCHANGED <<now, speedWriter, lastSpeed,
                   lastRecordedSpeed, lastMeasurementTime, forwarded, history>>

(* ------------------------- measurement goroutine ------------------------ *)
\* a body that only logs a failure and returns without the update
CallUpdateOnSuccess(k, exit, speed) ==
    IF exit = "ok"
    THEN [tasks EXCEPT ![k].pc = "updlock", ![k].exit = exit,
                       ![k].speed = speed]
    ELSE [tasks EXCEPT ![k].pc = AfterReturn(exit), ![k].exit = exit,
                       ![k].speed = speed]

\* updateLastSpeed(speed, db) is called with the outcome of the body
CallUpdate(k, exit, speed) ==
    [tasks EXCEPT ![k].pc = "updlock", ![k].exit = exit, ![k].speed = speed]

\* the cleanup written without defer: it runs when the goroutine starts
BeginReleases(k) ==
    /\ tasks[k].pc = "begin"
    /\ tasks' = [tasks EXCEPT ![k].pc = "get", ![k].start = now]
    /\ measuring' = FALSE
    /\ lastMeasurementTime' = now
    /\ UNCHANGED <<now, guardMutex, speedWriter, lastSpeed,
                   lastRecordedSpeed, req, forwarded, history>>

\* start := time.Now(); httpClient.Get is issued
Begin(k) ==
    /\ tasks[k].pc = "begin"
    /\ tasks' = [tasks EXCEPT ![k].pc = "get", ![k].start = now]
    /\ UNCHANGED <<now, guardMutex, speedWriter, lastSpeed,
                   lastRecordedSpeed, measuring, lastMeasurementTime, req,
                   forwarded, history>>

\* httpClient.Get returns: an error, or the response within the timeout
GetEnd(k) ==
    /\ tasks[k].pc = "get"
    /\ \E ok \in BOOLEAN :
        /\ ok => Since(tasks[k].start) < httpTimeout
        /\ tasks' = IF ok THEN [tasks EXCEPT ![k].pc = "copy"]
                          ELSE CallUpdate(k, "geterr", Zero)
    /\ UNCHANGED <<now, guardMutex, speedWriter, lastSpeed,
                   lastRecordedSpeed, measuring, lastMeasurementTime, req,
                   forwarded, history>>

\* io.Copy returns, then duration and mbps are computed
CopyEnd(k) ==
    /\ tasks[k].pc = "copy"
    /\ \/ tasks' = CallUpdate(k, "readerr", Zero)
       \/ /\ Since(tasks[k].start) < httpTimeout
          /\ \E n \in Bytes :
               LET duration == Since(tasks[k].start)
               IN  tasks' = IF duration = 0
                            THEN CallUpdate(k, "zerodur", Zero)
                            ELSE CallUpdate(k, "ok", Mbps(n, duration))
    /\ UNCHANGED <<now, guardMutex, speedWriter, lastSpeed,
                   lastRecordedSpeed, measuring, lastMeasurementTime, req,
                   forwarded, history>>

(* ---------------------------- updateLastSpeed --------------------------- *)
\* speedMutex.Lock()
UpdLock(k) ==
    /\ tasks[k].pc = "updlock"
    /\ speedWriter = Free
    /\ speedWriter' = <<"t", k>>
    /\ tasks' = [tasks EXCEPT ![k].pc = "updset"]
    /\ UNCHANGED <<now, guardMutex, lastSpeed,
                   lastRecordedSpeed, measuring, lastMeasurementTime, req,
                   forwarded, history>>

\* lines 133-144: the store, the de-duplication decision, the unlock and
\* the early return when the row is suppressed
UpdSet(k) ==
    /\ tasks[k].pc = "updset"
    /\ LET speed == tasks[k].speed
           sw == ShouldWrite(speed, lastRecordedSpeed)
       IN  /\ lastSpeed' = StoredSpeed(speed, lastSpeed)
           /\ lastRecordedSpeed' = IF sw THEN speed ELSE lastRecordedSpeed
           /\ tasks' = [tasks EXCEPT
                           ![k].shouldWrite = sw,
                           ![k].pc = IF sw THEN "prepare"
                                     ELSE AfterReturn(tasks[k].exit)]
    /\ speedWriter' = SpeedUnlock(k)
    /\ UNCHANGED <<now, guardMutex, measuring,
                   lastMeasurementTime, req, forwarded, history>>

\* db.Prepare: the row reaches the history sink; the statement may fail
Prepare(k) ==
    /\ tasks[k].pc = "prepare"
    /\ forwarded' = Append(forwarded, tasks[k].speed)
    /\ \E ok \in BOOLEAN :
        tasks' = [tasks EXCEPT ![k].pc = IF ok THEN "exec"
                                         ELSE AfterReturn(tasks[k].exit)]
    /\ UNCHANGED <<now, guardMutex, speedWriter, lastSpeed,
                   lastRecordedSpeed, measuring, lastMeasurementTime, req,
                   history>>

\* an insert failure that ends the goroutine without its cleanup
ExecFatal(k) ==
    /\ tasks[k].pc = "exec"
    /\ \E ok \in BOOLEAN :
        /\ history' = IF ok THEN Append(history, tasks[k].speed) ELSE history
        /\ tasks' = [tasks EXCEPT ![k].pc = IF ok THEN AfterReturn(tasks[k].exit)
                                                  ELSE "done"]
    /\ UNCHANGED <<now, guardMutex, speedWriter, lastSpeed,
                   lastRecordedSpeed, measuring, lastMeasurementTime, req,
                   forwarded>>

\* an insert failure that prepares and inserts the row again
ExecRetry(k) ==
    /\ tasks[k].pc = "exec"
    /\ \E ok \in BOOLEAN :
        /\ history' = IF ok THEN Append(history, tasks[k].speed) ELSE history
        /\ tasks' = [tasks EXCEPT ![k].pc = IF ok THEN AfterReturn(tasks[k].exit)
                                                  ELSE "prepare"]
    /\ UNCHANGED <<now, guardMutex, speedWriter, lastSpeed,
                   lastRecordedSpeed, measuring, lastMeasurementTime, req,
                   forwarded>>

\* stmt.Exec: the insert succeeds or fails
Exec(k) ==
    /\ tasks[k].pc = "exec"
    /\ \E ok \in BOOLEAN :
        history' = IF ok THEN Append(history, tasks[k].speed) ELSE history
    /\ tasks' = [tasks EXCEPT ![k].pc = AfterReturn(tasks[k].exit)]
    /\ UNCHANGED <<now, guardMutex, speedWriter, lastSpeed,
                   lastRecordedSpeed, measuring, lastMeasurementTime, req,
                   forwarded>>

(* --------------------------- deferred function -------------------------- *)
DeferLock(k) ==
    /\ tasks[k].pc = "deferlock"
    /\ guardMutex = Free
    /\ guardMutex' = <<"t", k>>
    /\ tasks' = [tasks EXCEPT ![k].pc = "deferset"]
    /\ UNCHANGED <<now, speedWriter, lastSpeed,
                   lastRecordedSpeed, measuring, lastMeasurementTime, req,
                   forwarded, history>>

\* a cleanup that stamps the time but leaves the measuring flag set
DeferSetKeepsFlag(k) ==
    /\ tasks[k].pc = "deferset"
    /\ lastMeasurementTime' = CompletionTime
    /\ guardMutex' = Free
    /\ tasks' = [tasks EXCEPT ![k].pc = "done", ![k].endAt = now,
                              ![k].start = 0, ![k].exit = "none"]
    /\ UNCHANGED <<now, speedWriter, lastSpeed, lastRecordedSpeed, measuring,
                   req, forwarded, history>>

\* measuring = false; lastMeasurementTime = time.Now(); guardMutex.Unlock()
DeferSet(k) ==
    /\ tasks[k].pc = "deferset"
    /\ measuring' = FALSE
    /\ lastMeasurementTime' = CompletionTime
    /\ guardMutex' = Free
    /\ tasks' = [tasks EXCEPT ![k].pc = "done", ![k].endAt = now,
                              ![k].start = 0, ![k].exit = "none"]
    /\ UNCHANGED <<now, speedWriter, lastSpeed,
                   lastRecordedSpeed, req, forwarded, history>>

(* ---------------------------- specifications ---------------------------- *)
HandlerStep(r) ==
    \/ CheckConnectivity(r)
    \/ ReadSpeed(r)
    \/ Respond(r)
    \/ SkipMeasure(r)
    \/ GateLock(r)
    \/ GateCheck(r)

UpdateStep(k) ==
    \/ UpdLock(k)
    \/ UpdSet(k)
    \/ Prepare(k)
    \/ Exec(k)
    \/ DeferLock(k)
    \/ DeferSet(k)

TaskStep(k) ==
    \/ Begin(k)
    \/ GetEnd(k)
    \/ CopyEnd(k)
    \/ UpdateStep(k)

Next ==
    \/ TickSecond
    \/ TickCooldown
    \/ \E r \in Handlers : HandlerStep(r)
    \/ \E k \in DOMAIN tasks : TaskStep(k)

Spec == Init /\ [][Next]_vars

\* The Go scheduler runs every runnable goroutine, and sync.Mutex hands a
\* starving waiter the lock, so a goroutine waiting for guardMutex gets it
\* if it is free again and again.
Fairness ==
    /\ SF_vars(\E k \in DOMAIN tasks : TaskStep(k))
    /\ \A r \in Handlers : WF_vars(GateCheck(r))

\* the runs in which the clock advances by seconds only
NextFair ==
    \/ TickSecond
    \/ \E r \in Handlers : HandlerStep(r)
    \/ \E k \in DOMAIN tasks : TaskStep(k)

FairSpec == Init /\ [][NextFair]_vars /\ Fairness

(* --------------- time advances and online requests arrive --------------- *)
\* the connection on which a client polls /status, one request at a time
Pollers == {1}

\* request r arrives while the host is online
OnlineRequest(r) == CheckConnectivity(r) /\ req'[r].online

\* the steps by which a handler runs the request it has to its end
Proceed(r) ==
    ReadSpeed(r) \/ Respond(r) \/ SkipMeasure(r) \/ GateLock(r) \/ GateCheck(r)

\* The clock advances by a cooldown as long as the horizon allows; the
\* goroutines are scheduled; online requests keep arriving on the polled
\* connection, and a handler that has a request runs it to its end, taking
\* guardMutex when it is free again and again.
LiveFairness ==
    /\ WF_vars(TickCooldown)
    /\ SF_vars(\E k \in DOMAIN tasks : TaskStep(k))
    /\ \A r \in Pollers : SF_vars(OnlineRequest(r)) /\ SF_vars(Proceed(r))

NextLive ==
    \/ TickSecond
    \/ TickCooldown
    \/ \E r \in Pollers : HandlerStep(r)
    \/ \E k \in DOMAIN tasks : TaskStep(k)

LiveSpec == Init /\ [][NextLive]_vars /\ LiveFairness

(* ----------------- measurement bodies run back to back ------------------ *)
\* Outcomes of the measurement body: the return path taken and the speed
\* handed to updateLastSpeed.
Outcomes ==
    {<<"geterr", Zero>>, <<"readerr", Zero>>, <<"zerodur", Zero>>}
        \cup {<<"ok", s>> : s \in UpdateSpeeds}

\* A measurement whose body ends with the chosen outcome; the next one
\* begins when it has completed.  The clock and the cooldown play no part.
RunBody(exit, speed) ==
    /\ InFlight = {}
    /\ Len(tasks) < MaxUpdates
    /\ measuring' = TRUE
    /\ tasks' = Append(tasks, [NewTask EXCEPT !.pc = "updlock",
                                              !.exit = exit,
                                              !.speed = speed])
    /\ UNCHANGED <<now, guardMutex, speedWriter, lastSpeed,
                   lastRecordedSpeed, lastMeasurementTime, req, forwarded,
                   history>>

NextUpdate ==
    \/ \E o \in Outcomes : RunBody(o[1], o[2])
    \/ \E k \in DOMAIN tasks : UpdateStep(k)

SpecUpdate == Init /\ [][NextUpdate]_vars

(* ================================ claims ================================ *)
Downloading == {k \in DOMAIN tasks : tasks[k].pc \in {"begin", "get", "copy"}}

InRequestPath(r) == req[r].pc \in {"idle", "read", "respond"}

RequestPathStep(r) ==
    CheckConnectivity(r) \/ ReadSpeed(r) \/ Respond(r)

\* C1: single-flight. At most one measurement is in flight at any time, and
\* while one is in flight the measuring flag is set, so no other caller can
\* pass the gate.
C1_SingleFlight ==
    /\ Cardinality(InFlight) <= 1
    /\ InFlight # {} <=> measuring

\* two handlers are inside measureDownloadSpeedAsync's gate while a
\* measurement is in flight
C1_Witness ==
    /\ InFlight # {}
    /\ \E r1, r2 \in Handlers :
        /\ r1 # r2
        /\ req[r1].pc = "gatecheck"
        /\ req[r2].pc = "trigger" /\ req[r2].online

\* C2: cooldown. A measurement passes the gate only after every earlier one
\* has completed, and at least measurementCooldown after that completion.
C2_Cooldown ==
    \A i, j \in DOMAIN tasks :
        i < j => /\ tasks[i].pc = "done"
                 /\ tasks[j].gateAt - tasks[i].endAt >= measurementCooldown

\* the second measurement passed the gate exactly one cooldown after the
\* first one completed
C2_Witness ==
    /\ Len(tasks) = 2
    /\ tasks[1].endAt = 1
    /\ tasks[2].gateAt = 1 + measurementCooldown

\* C3: within one cooldown window at most one measurement passes the gate:
\* any two gate passes lie at least measurementCooldown apart, every other
\* call in between having spawned nothing.
C3_OnePerWindow ==
    \A i, j \in DOMAIN tasks :
        i < j => tasks[j].gateAt - tasks[i].gateAt >= measurementCooldown

\* a caller holds the gate 1 s after the only measurement completed: it is
\* inside the window and is about to be turned away
C3_Witness ==
    /\ Len(tasks) = 1
    /\ tasks[1].pc = "done"
    /\ Since(lastMeasurementTime) = 1
    /\ \E r \in Handlers : req[r].pc = "gatecheck"

\* C7: while a measurement is downloading, every handler that is on the
\* request/response path can take its next step; none waits for the
\* measurement.
C7_ResponseNeverWaits ==
    \A r \in Handlers :
        (Downloading # {} /\ InRequestPath(r)) => ENABLED RequestPathStep(r)

\* The only measurement so far is still downloading and every handler has
\* sent a response.  The handler that passed the gate for it returned
\* before it served its present request, so that request was probed, read
\* and answered while the measurement was in flight.
C7_Witness ==
    /\ Len(tasks) = 1
    /\ tasks[1].pc = "copy"
    /\ \A r \in Handlers :
        /\ req[r].pc = "trigger"
        /\ req[r].resp # <<>>

\* C8: a handler calls measureDownloadSpeedAsync only after its response was
\* sent, a measurement passes the gate only for a request whose response was
\* sent, and the response sent does not change afterwards.
C8_RespondedBeforeCall ==
    \A r \in Handlers :
        req[r].pc \in {"trigger", "gatecheck"} => req[r].resp # <<>>

C8_ResponseFixed ==
    \A r \in Handlers :
        /\ (req[r].resp # <<>> /\ req'[r].pc # "idle")
              => req'[r].resp = req[r].resp
        /\ (req[r].pc = "gatecheck" /\ Len(tasks') > Len(tasks))
              => req[r].resp # <<>>

C8_ResponseBeforeMeasurement ==
    [] C8_RespondedBeforeCall /\ [][C8_ResponseFixed]_vars

\* a handler whose response, carrying the speed of the previous
\* measurement, was sent holds the gate and the gate is open: the
\* measurement it triggers starts after that response
C8_Witness ==
    \E r \in Handlers :
        /\ req[r].pc = "gatecheck"
        /\ req[r].resp # <<>>
        /\ req[r].resp[1].speed # Zero
        /\ GateOpen(measuring, lastMeasurementTime)

\* C9: a request whose probe reported offline has latency 0, never enters
\* measureDownloadSpeedAsync, and none of its steps changes the guard state
\* or the last reading.
C9_OfflineNotInGate ==
    \A r \in Handlers :
        /\ req[r].pc = "gatecheck" => req[r].online
        /\ (req[r].pc # "idle" /\ ~req[r].online) => req[r].latencyMs = 0
        /\ (req[r].resp # <<>> /\ ~req[r].resp[1].online)
              => req[r].resp[1].latencyMs = 0

OfflineStep(r) ==
    /\ req'[r] # req[r]
    /\ \/ req[r].pc # "idle" /\ ~req[r].online
       \/ req[r].pc = "idle" /\ ~req'[r].online

C9_OfflineFrame ==
    \A r \in Handlers :
        OfflineStep(r) => UNCHANGED <<measuring, lastMeasurementTime,
                                      lastSpeed, lastRecordedSpeed, tasks,
                                      guardMutex>>

C9_OfflineNeverTriggers ==
    [] C9_OfflineNotInGate /\ [][C9_OfflineFrame]_vars

\* an offline request has responded and is about to return although the
\* gate is open
C9_Witness ==
    \E r \in Handlers :
        /\ req[r].pc = "trigger"
        /\ ~req[r].online
        /\ req[r].resp # <<>>
        /\ GateOpen(measuring, lastMeasurementTime)

\* C6: every measurement that passed the gate completes, whatever the exit
\* path, and the step that clears measuring stamps lastMeasurementTime with
\* the current time.
C6_Completes ==
    \A k \in 1..MaxMeas :
        (k \in DOMAIN tasks /\ tasks[k].pc # "done")
            ~> (k \in DOMAIN tasks /\ tasks[k].pc = "done" /\ ~measuring)

C6_Stamp == (measuring /\ ~measuring') => lastMeasurementTime' = now

C6_GateReleased == C6_Completes /\ [][C6_Stamp]_vars

\* a measurement that failed (speed 0) has completed and released the gate
C6_Witness ==
    /\ Len(tasks) = 1
    /\ tasks[1].pc = "done"
    /\ tasks[1].speed = Zero
    /\ ~measuring
    /\ lastMeasurementTime = tasks[1].endAt

(* ----------------------- claims on updateLastSpeed ---------------------- *)
\* the speeds updateLastSpeed was called with, for the calls that are past
\* the pcs given (the calls are made one after the other, so these are
\* the first ones)
SpeedsPast(pcs) ==
    LET ks == {k \in DOMAIN tasks : tasks[k].pc \notin pcs}
    IN  [i \in 1..Cardinality(ks) |-> tasks[i].speed]

\* the de-duplication law as stated: the rows forwarded for a sequence of
\* updates, starting from a last recorded speed rec
RECURSIVE DedupFrom(_, _)
DedupFrom(updates, rec) ==
    IF updates = <<>> THEN <<>>
    ELSE IF Head(updates) # Zero \/ rec # Zero
         THEN <<Head(updates)>> \o DedupFrom(Tail(updates), Head(updates))
         ELSE DedupFrom(Tail(updates), rec)

LastOrZero(rows) == IF rows = <<>> THEN Zero ELSE rows[Len(rows)]

\* C4: de-duplication law. The rows forwarded to the history sink are the
\* updates with speed # 0 or lastRecordedSpeed # 0 at the call, and
\* lastRecordedSpeed is the speed of the last update forwarded (0 at first).
C4_DedupLaw ==
    /\ forwarded = DedupFrom(SpeedsPast({"updlock", "updset", "prepare"}), Zero)
    /\ lastRecordedSpeed =
           LastOrZero(DedupFrom(SpeedsPast({"updlock", "updset"}), Zero))
    /\ \A k \in DOMAIN tasks :
           tasks[k].pc \in {"prepare", "exec"} => tasks[k].shouldWrite

\* the updates [5, 0, 0, 0, 7] have forwarded exactly 5, 0 and 7
C4_Witness ==
    /\ InFlight = {}
    /\ [k \in DOMAIN tasks |-> tasks[k].speed]
           = <<Rat(5, 1), Zero, Zero, Zero, Rat(7, 1)>>
    /\ forwarded = <<Rat(5, 1), Zero, Rat(7, 1)>>

\* C5: no two consecutive forwarded rows are zero, and a zero row is
\* forwarded only right after a non-zero one (never as the first row).
C5_NoZeroRun ==
    \A i \in DOMAIN forwarded :
        forwarded[i] = Zero => (i > 1 /\ forwarded[i - 1] # Zero)

\* after 5 and a first failure were forwarded, a measurement that failed
\* with a connection error has returned from updateLastSpeed without a row
C5_Witness ==
    /\ Len(tasks) = 3
    /\ tasks[3].exit = "geterr"
    /\ tasks[3].pc = "deferlock"
    /\ ~tasks[3].shouldWrite
    /\ forwarded = <<Rat(5, 1), Zero>>

\* C10: when no updateLastSpeed call is in progress, lastRecordedSpeed is
\* the speed of the last row inserted into the history (0 if none).
C10_TracksDurable ==
    InFlight = {} => lastRecordedSpeed = LastOrZero(history)

(* ------------------------- claims C11 .. C20 ---------------------------- *)
\* the step in which db.Prepare or stmt.Exec of measurement k returns an error
PersistFailStep(k) ==
    /\ k \in DOMAIN tasks
    /\ \/ tasks[k].pc = "prepare" /\ tasks'[k].pc \notin {"prepare", "exec"}
       \/ tasks[k].pc = "exec" /\ tasks'[k].pc # "exec" /\ history' = history

C11_Frame ==
    \A k \in 1..MaxMeas :
        PersistFailStep(k) =>
            /\ lastSpeed' = tasks[k].speed
            /\ UNCHANGED <<lastSpeed, lastRecordedSpeed, measuring,
                           lastMeasurementTime, guardMutex, req>>
            /\ tasks'[k].pc = "deferlock"

C11_Completes ==
    \A k \in 1..MaxMeas :
        (/\ k \in DOMAIN tasks
         /\ tasks[k].pc = "deferlock"
         /\ tasks[k].shouldWrite
         /\ Len(history) < Len(forwarded))
            ~> (/\ k \in DOMAIN tasks
                /\ tasks[k].pc = "done"
                /\ ~measuring
                /\ lastMeasurementTime = tasks[k].endAt)

\* C11: a persistence failure is dropped. The step in which prepare or
\* insert fails leaves lastSpeed at the speed just measured, touches neither
\* the gate nor any request or response, and hands over to the deferred
\* cleanup; the measurement then completes with measuring = false and
\* lastMeasurementTime set to its completion time.
C11_PersistFailureDropped == C11_Completes /\ [][C11_Frame]_vars

\* a measured speed whose row was not stored: the reading is kept and the
\* gate is released
C11_Witness ==
    /\ Len(tasks) = 1
    /\ tasks[1].pc = "done"
    /\ tasks[1].shouldWrite
    /\ tasks[1].speed # Zero
    /\ forwarded = <<tasks[1].speed>>
    /\ history = <<>>
    /\ lastSpeed = tasks[1].speed
    /\ ~measuring
    /\ lastMeasurementTime = tasks[1].endAt

FailureExits == {"geterr", "readerr", "zerodur"}

BeforeStore == {"begin", "get", "copy", "updlock", "updset"}

\* C12: throughput failure policy. A transport error, a read error or a zero
\* elapsed duration makes the measurement call updateLastSpeed with speed 0:
\* the failed measurement carries speed 0, goes through the update, and once
\* it has stored its result lastSpeed is 0 until it completes; a response
\* carries a speed and no error state.
C12_FailureIsZero ==
    /\ \A k \in DOMAIN tasks :
          tasks[k].exit \in FailureExits =>
              /\ tasks[k].speed = Zero
              /\ tasks[k].pc \notin {"begin", "get", "copy"}
              /\ tasks[k].pc \notin BeforeStore => lastSpeed = Zero
    /\ \A r \in Handlers :
          req[r].resp # <<>> =>
              DOMAIN req[r].resp[1] = {"online", "latencyMs", "speed"}

\* a read error in the second measurement has replaced the first
\* measurement's reading by 0
C12_Witness ==
    /\ Len(tasks) = 2
    /\ tasks[1].speed # Zero
    /\ tasks[2].exit = "readerr"
    /\ tasks[2].pc = "deferlock"
    /\ lastSpeed = Zero

\* the speed of the last updateLastSpeed call that has set the value
LastStored == LastOrZero(SpeedsPast(BeforeStore))

C13_Stored == speedWriter = Free => lastSpeed = LastStored

C13_Read ==
    \A r \in Handlers :
        (req[r].pc = "read" /\ req'[r].pc # "read") =>
            req'[r].speed = LastStored

\* C13: updateLastSpeed round trip. Once updateLastSpeed(S) has set the
\* value, and until a later update sets another, lastSpeed is S whenever the
\* read lock can be taken, and every status read returns S, whether or not
\* the row was forwarded to the history sink.
C13_RoundTrip == []C13_Stored /\ [][C13_Read]_vars

\* one request has read the 0 of an update that was not forwarded, another
\* the speed of the update after it, which was
C13_Witness ==
    /\ Len(tasks) = 2
    /\ tasks[1].pc = "done" /\ tasks[1].speed = Zero
    /\ tasks[2].pc = "prepare" /\ tasks[2].speed # Zero
    /\ forwarded = <<>>
    /\ \E r1, r2 \in Handlers :
          /\ req[r1].pc = "respond" /\ req[r1].speed = Zero
          /\ req[r2].pc = "respond" /\ req[r2].speed = tasks[2].speed

\* the gate check of request r turns the caller away
RejectedStep(r) ==
    /\ req[r].pc = "gatecheck"
    /\ req'[r].pc # "gatecheck"
    /\ measuring \/ now - lastMeasurementTime < measurementCooldown

\* C14: a rejected gate check is a no-op. Called while measuring = true or
\* within the cooldown, it leaves measuring, lastMeasurementTime, lastSpeed
\* and lastRecordedSpeed unchanged, starts no measurement and does not touch
\* the measurement in flight.
C14_RejectedNoOp ==
    [][\A r \in Handlers :
          RejectedStep(r) =>
              UNCHANGED <<measuring, lastMeasurementTime, lastSpeed,
                          lastRecordedSpeed, tasks, forwarded, history>>]_vars

\* a second request, one second after the one that started the measurement
\* still downloading, holds the guard for a check that turns it away
C14_Witness ==
    /\ Len(tasks) = 1
    /\ tasks[1].pc = "copy"
    /\ now - tasks[1].gateAt = 1
    /\ measuring
    /\ lastMeasurementTime = ZeroTime
    /\ \E r \in Handlers :
          /\ req[r].pc = "gatecheck"
          /\ guardMutex = <<"h", r>>

\* the measurements, in the order they passed the gate, whose update has
\* handed a row to the history sink
Handed ==
    SelectSeq(tasks, LAMBDA t : t.shouldWrite
                                /\ t.pc \notin BeforeStore \cup {"prepare"})

RECURSIVE IsSubseq(_, _)
IsSubseq(a, b) ==
    IF a = <<>> THEN TRUE
    ELSE IF b = <<>> THEN FALSE
    ELSE IF Head(a) = Head(b) THEN IsSubseq(Tail(a), Tail(b))
    ELSE IsSubseq(a, Tail(b))

InUpdate == {k \in DOMAIN tasks :
                tasks[k].pc \in {"updlock", "updset", "prepare", "exec"}}

\* C15: history rows correspond to completed measurements. The rows handed
\* to the history sink are, once each and in the order of the measurements,
\* the speeds of the measurements whose update passed the de-duplication
\* rule; the rows stored are a subsequence of them; and the updates of two
\* measurements never overlap.
C15_RowsOfMeasurements ==
    /\ forwarded = [i \in 1..Len(Handed) |-> Handed[i].speed]
    /\ IsSubseq(history, forwarded)
    /\ Cardinality(InUpdate) <= 1
    /\ \A k \in DOMAIN tasks :
          tasks[k].shouldWrite <=>
              /\ tasks[k].pc \notin BeforeStore
              /\ \/ tasks[k].speed # Zero
                 \/ k > 1 /\ tasks[k - 1].speed # Zero

\* a first measurement of speed 0 left no row, the second one left its own
C15_Witness ==
    /\ Len(tasks) = 2
    /\ tasks[1].pc = "done" /\ tasks[1].speed = Zero
    /\ tasks[2].pc = "done" /\ tasks[2].speed # Zero
    /\ forwarded = <<tasks[2].speed>>
    /\ history = forwarded

\* C16: speed computation. A download of n bytes without error in a non-zero
\* elapsed time of d seconds is reported as n * 8 / d / 1,000,000 Mbps; the
\* 5,000,000 bytes of the payload in 1 second give 40 Mbps.
C16_Speed ==
    [][\A k \in 1..MaxMeas :
          (k \in DOMAIN tasks /\ tasks[k].pc = "copy" /\ tasks'[k].exit = "ok")
          => LET d == now - tasks[k].start
                 v == tasks'[k].speed
             IN  /\ d > 0
                 /\ \E n \in Bytes :
                       /\ v[1] * d * 1000000 = n * 8 * v[2]
                       /\ (n = PayloadBytes /\ d = 1) => v = <<40, 1>>]_vars

\* the payload was read in one second and 40 Mbps is on its way to the update
C16_Witness ==
    /\ Len(tasks) = 1
    /\ tasks[1].pc = "updlock"
    /\ tasks[1].exit = "ok"
    /\ now - tasks[1].start = 1
    /\ tasks[1].speed = <<40, 1>>

\* measurements at the download or at the history sink
AtIO == {k \in DOMAIN tasks :
            tasks[k].pc \in {"begin", "get", "copy", "prepare", "exec"}}

\* C17: lock discipline. A measurement at the download or at the history
\* prepare/insert holds neither guardMutex nor speedMutex, and speedMutex is
\* free then; guardMutex is held exactly by a caller at the gate's check and
\* set and by a measurement at its final state update; speedMutex is held by
\* a measurement exactly while it sets lastSpeed and lastRecordedSpeed.
C17_LockDiscipline ==
    /\ \A k \in AtIO :
          /\ guardMutex # <<"t", k>>
          /\ speedWriter # <<"t", k>>
    /\ AtIO # {} => speedWriter = Free
    /\ \A k \in DOMAIN tasks :
          /\ guardMutex = <<"t", k>> <=> tasks[k].pc = "deferset"
          /\ speedWriter = <<"t", k>> <=> tasks[k].pc = "updset"
    /\ \A r \in Handlers :
          guardMutex = <<"h", r>> <=> req[r].pc = "gatecheck"

\* during the insert one request reads the speed and another is at the gate
C17_Witness ==
    /\ Len(tasks) = 1
    /\ tasks[1].pc = "exec"
    /\ speedWriter = Free
    /\ \E r1, r2 \in Handlers :
          /\ req[r1].pc = "read"
          /\ req[r2].pc = "gatecheck"

\* C18: completion ordering. A measurement sets lastSpeed and finishes its
\* call of the history sink before it clears measuring and sets
\* lastMeasurementTime: until its deferred cleanup, measuring is set and
\* lastMeasurementTime lies before its gate pass; and whenever measuring is
\* false after k measurements passed the gate, the k-th has completed,
\* lastSpeed is its result and lastMeasurementTime its completion time.
C18_CompletionOrder ==
    /\ \A k \in DOMAIN tasks :
          tasks[k].pc \notin {"deferset", "done"} =>
              /\ measuring
              /\ lastMeasurementTime < tasks[k].gateAt
    /\ (~measuring /\ tasks # <<>>) =>
          LET k == Len(tasks)
          IN  /\ tasks[k].pc = "done"
              /\ lastSpeed = tasks[k].speed
              /\ lastMeasurementTime = tasks[k].endAt
              /\ tasks[k].endAt >= tasks[k].gateAt

\* the row of the only measurement is stored, then the gate was released
C18_Witness ==
    /\ Len(tasks) = 1
    /\ tasks[1].pc = "done"
    /\ tasks[1].speed # Zero
    /\ history = <<tasks[1].speed>>
    /\ lastSpeed = tasks[1].speed
    /\ ~measuring
    /\ lastMeasurementTime = tasks[1].endAt
    /\ tasks[1].endAt = 1

\* the step in which request r copies lastSpeed into its status
ReadStep(r) == req[r].pc = "read" /\ req'[r].pc # "read"

\* the result of the last measurement that has completed, 0 if none has
LastCompleted ==
    LastOrZero(SpeedsPast({"begin", "get", "copy", "updlock", "updset",
                           "prepare", "exec", "deferlock", "deferset"}))

\* C19 as stated: a status read returns 0 or the speed of the most recently
\* completed measurement, and while a measurement is in flight (it has
\* passed the gate and measuring is still set) the previous measurement's
\* value.
C19_ReportsCompleted ==
    [][\A r \in Handlers : ReadStep(r) => req'[r].speed = LastCompleted]_vars

C19_ReadsStored ==
    \A r \in Handlers :
        ReadStep(r) =>
            /\ req'[r].speed = LastStored
            /\ Downloading # {} => req'[r].speed = LastCompleted

C19_Responds ==
    \A r \in Handlers :
        (req[r].pc = "respond" /\ req'[r].pc # "respond") =>
            /\ req'[r].resp # <<>>
            /\ req'[r].resp[1].speed = req[r].speed

C19_HandlerFrame == req' # req => UNCHANGED <<lastSpeed, lastRecordedSpeed>>

\* C19, amended: a status read returns 0 (no measurement has stored a result
\* yet) or the speed of the last measurement that has stored its result by
\* updateLastSpeed, which may still be in flight (measuring set) while its
\* history write and cleanup run; a read made while a measurement is still
\* downloading returns the previous measurement's value; the response carries
\* the value read; and no step of the status handler changes lastSpeed or
\* lastRecordedSpeed.
C19_ReportsStored ==
    [][C19_ReadsStored /\ C19_Responds /\ C19_HandlerFrame]_vars

\* a request has read the speed of a measurement whose insert is still
\* running and which still holds the gate
C19_Witness ==
    /\ Len(tasks) = 1
    /\ tasks[1].pc = "exec"
    /\ tasks[1].speed # Zero
    /\ measuring
    /\ \E r \in Handlers :
          /\ req[r].pc = "respond"
          /\ req[r].speed = tasks[1].speed

C20_FirstPasses ==
    \A r \in Pollers :
        (req[r].pc = "gatecheck" /\ req'[r].pc # "gatecheck" /\ tasks = <<>>)
            => Len(tasks') = 1

C20_FirstStarts == (tasks = <<>>) ~> (tasks # <<>>)

C20_Restarts ==
    \A k \in 1..(MaxMeas - 1) :
        (/\ Len(tasks) = k
         /\ tasks[k].pc = "done"
         /\ tasks[k].endAt + measurementCooldown <= MaxTime)
            ~> (Len(tasks) > k)

\* C20: no starvation of measurements. The first gate check after process
\* start passes, and if the clock keeps advancing and online requests keep
\* arriving, a first measurement starts and after each measurement that
\* completes a cooldown before the end of the horizon a next one starts.
C20_NoStarvation == [][C20_FirstPasses]_vars /\ C20_FirstStarts /\ C20_Restarts

\* the first measurement completed at once, the second passed the gate as
\* soon as the cooldown was over
C20_Witness ==
    /\ Len(tasks) = 2
    /\ tasks[1].pc = "done"
    /\ tasks[1].endAt = 0
    /\ tasks[2].pc = "begin"
    /\ tasks[2].gateAt = measurementCooldown
====
